---- MODULE Spec2Model ----
(***************************************************************************)
(* Verification model of the WESUP repository:                             *)
(*   - models/cdws_mil.py : class CDWS (forward, compute_loss), at the     *)
(*     level of tensor shapes, plus the arithmetic of ac_loss;             *)
(*   - train.py : __main__, fit, train_one_epoch, train_one_iteration.     *)
(* Three specifications share the module's variables:                      *)
(*   SpecModel  a CDWS instance under any sequence of forward and          *)
(*              compute_loss calls;                                        *)
(*   SpecAC     the nested function ac_loss applied to bounded inputs;     *)
(*   SpecTrain  a chain of runs of train.py on one record directory.       *)
(***************************************************************************)
EXTENDS Integers, Sequences, FiniteSets, TLC

VARIABLES
    \* ---- CDWS instance (models/cdws_mil.py) ----
    side_outputs,     \* self.side_outputs
    fused_output,     \* self.fused_output
    fusion_weights,   \* CDWS.fusion_weights / self.fusion_weights
    side_ac_weights,  \* CDWS.side_ac_weights / self.side_ac_weights
    fuse_ac_weight,   \* CDWS.fuse_ac_weight
    call,             \* the last call made on the instance and its outcome
    lastForwardX,     \* input shape of the last forward call (<<>>: none yet)
    \* ---- ac_loss applied to concrete numbers ----
    acIn,             \* the inputs of ac_loss
    acOut,            \* what ac_loss returned for them (<<>> before the call)
    \* ---- train.py: the record directory, kept from run to run ----
    dirExists,        \* record_dir exists
    ckpts,            \* the .pth files in record_dir/checkpoints
    saved,            \* epoch numbers of the checkpoints saved in record_dir so far
    \* ---- train.py: one run of the program ----
    runNo,            \* number of runs started
    pc,               \* position of the run
    args,             \* the parsed command line
    initial_epoch,    \* fit: initial_epoch
    total_epochs,     \* fit: total_epochs
    epoch,            \* fit: the loop variable
    epochsRun,        \* epoch numbers of the epochs this run has started
    phaseIdx,         \* train_one_epoch: index of the phase in phases
    batch,            \* train_one_epoch: index of the batch in the data loader
    iterLog,          \* train_one_iteration: the calls made so far for this batch
    attempts,         \* times each batch of each phase was handed to train_one_iteration
    caught,           \* RuntimeErrors caught in this epoch
    pending           \* the exception that left fit or the set-up, if any

modelVars == <<side_outputs, fused_output, fusion_weights, side_ac_weights,
               fuse_ac_weight, call, lastForwardX>>
acVars == <<acIn, acOut>>
dirVars == <<dirExists, ckpts, saved>>
fitVars == <<initial_epoch, total_epochs, epoch, epochsRun>>
epochVars == <<phaseIdx, batch, iterLog, attempts, caught>>
trainVars == <<dirVars, runNo, pc, args, fitVars, epochVars, pending>>

(***************************************************************************)
(* Bounds of the model.                                                    *)
(***************************************************************************)
MaxB == 2        \* batch sizes 1..MaxB
MaxHW == 16      \* spatial sizes 1..MaxHW

(***************************************************************************)
(* Values.  A tensor is its shape (and, for the configuration constants,   *)
(* its values); None, a Python int and a raised exception are values of    *)
(* the same record type with another kind.                                 *)
(***************************************************************************)
Tensor(shape) == [kind |-> "tensor", shape |-> shape, vals |-> <<>>]
TensorV(shape, vals) == [kind |-> "tensor", shape |-> shape, vals |-> vals]
None == [kind |-> "None", shape |-> <<>>, vals |-> <<>>]
PyInt(n) == [kind |-> "int", shape |-> <<>>, vals |-> <<n>>]
Raise(exc) == [kind |-> exc, shape |-> <<>>, vals |-> <<>>]
IsTensor(t) == t.kind = "tensor"
IsValue(t) == t.kind \in {"tensor", "None", "int"}

\* The exception a method call on v raises when v is not a tensor: an
\* exception already raised propagates, None and int have no tensor methods.
NotTensor(v) == IF IsValue(v) THEN Raise("AttributeError") ELSE v

Max(a, b) == IF a >= b THEN a ELSE b

(***************************************************************************)
(* torch layers and functions, on shapes.                                  *)
(***************************************************************************)
\* nn.Conv2d(in_ch, out_ch, k, padding=pad), stride 1.
Conv2d(in_ch, out_ch, k, pad, t) ==
    IF ~IsTensor(t) THEN NotTensor(t)
    ELSE IF Len(t.shape) # 4 \/ t.shape[2] # in_ch THEN Raise("RuntimeError")
    ELSE IF t.shape[3] + 2 * pad < k \/ t.shape[4] + 2 * pad < k
         THEN Raise("RuntimeError")
    ELSE Tensor(<<t.shape[1], out_ch,
                  t.shape[3] + 2 * pad - k + 1, t.shape[4] + 2 * pad - k + 1>>)

\* nn.MaxPool2d(k, stride=s), no padding, floor mode.
MaxPool2d(k, s, t) ==
    IF ~IsTensor(t) THEN NotTensor(t)
    ELSE IF t.shape[3] < k \/ t.shape[4] < k THEN Raise("RuntimeError")
    ELSE Tensor(<<t.shape[1], t.shape[2],
                  (t.shape[3] - k) \div s + 1, (t.shape[4] - k) \div s + 1>>)

\* F.relu, F.sigmoid, torch.log, 1 - t, t ** p: elementwise, shape kept.
Elementwise(t) == IF IsTensor(t) THEN t ELSE NotTensor(t)

\* torch.cat([a, b, c], dim=1): every dimension but dim 1 must agree.
CatChannels(a, b, c) ==
    IF ~IsTensor(a) THEN NotTensor(a)
    ELSE IF ~IsTensor(b) THEN NotTensor(b)
    ELSE IF ~IsTensor(c) THEN NotTensor(c)
    ELSE IF \A i \in {1, 3, 4} : a.shape[i] = b.shape[i] /\ a.shape[i] = c.shape[i]
         THEN Tensor(<<a.shape[1], a.shape[2] + b.shape[2] + c.shape[2],
                       a.shape[3], a.shape[4]>>)
    ELSE Raise("RuntimeError")

\* Shapes are broadcast from the trailing dimension; a missing dimension is 1.
DimFromEnd(s, i) == IF i <= Len(s) THEN s[Len(s) + 1 - i] ELSE 1
Broadcastable(s, t) ==
    \A i \in 1..Max(Len(s), Len(t)) :
        DimFromEnd(s, i) = DimFromEnd(t, i) \/ DimFromEnd(s, i) = 1
                                            \/ DimFromEnd(t, i) = 1
BroadcastShape(s, t) ==
    [j \in 1..Max(Len(s), Len(t)) |->
        Max(DimFromEnd(s, Max(Len(s), Len(t)) + 1 - j),
            DimFromEnd(t, Max(Len(s), Len(t)) + 1 - j))]

\* a * b and a + b of two tensors (a Python int broadcasts as a scalar).
Binary(a, b) ==
    IF ~IsValue(a) THEN a
    ELSE IF ~IsValue(b) THEN b
    ELSE IF a.kind = "None" \/ b.kind = "None" THEN Raise("TypeError")
    ELSE IF Broadcastable(a.shape, b.shape)
         THEN Tensor(BroadcastShape(a.shape, b.shape))
    ELSE Raise("RuntimeError")

\* t.view(1, 3, 1, 1): the element count must be 3; the values are kept.
View1311(t) ==
    IF ~IsTensor(t) THEN NotTensor(t)
    ELSE IF Len(t.vals) = 3 THEN TensorV(<<1, 3, 1, 1>>, t.vals)
    ELSE Raise("RuntimeError")

\* t.unsqueeze(0) and t.unsqueeze(-1).
UnsqueezeFirst(t) ==
    IF IsTensor(t) THEN TensorV(<<1>> \o t.shape, t.vals) ELSE NotTensor(t)
UnsqueezeLast(t) ==
    IF IsTensor(t) THEN TensorV(t.shape \o <<1>>, t.vals) ELSE NotTensor(t)

\* t.mean(dim=(2, 3)) of a (B, C, H, W) tensor: (B, C).
MeanHW(t) ==
    IF ~IsTensor(t) THEN NotTensor(t)
    ELSE IF Len(t.shape) < 4 THEN Raise("IndexError")
    ELSE Tensor(<<t.shape[1], t.shape[2]>>)

\* torch.sum(t, dim=1) and torch.sum(t, dim=1, keepdim=True).
SumDim1(t) ==
    IF ~IsTensor(t) THEN NotTensor(t)
    ELSE IF Len(t.shape) < 2 THEN Raise("IndexError")
    ELSE Tensor([j \in 1..(Len(t.shape) - 1) |->
                    IF j = 1 THEN t.shape[1] ELSE t.shape[j + 1]])
SumDim1Keep(t) ==
    IF ~IsTensor(t) THEN NotTensor(t)
    ELSE IF Len(t.shape) < 2 THEN Raise("IndexError")
    ELSE Tensor([j \in 1..Len(t.shape) |-> IF j = 2 THEN 1 ELSE t.shape[j]])

\* torch.sum(t): a 0-dimensional tensor.
SumAll(t) == IF IsTensor(t) THEN Tensor(<<>>) ELSE NotTensor(t)

\* t.squeeze(): every dimension of size 1 is dropped.
Squeeze(t) ==
    IF IsTensor(t) THEN Tensor(SelectSeq(t.shape, LAMBDA d : d # 1))
    ELSE NotTensor(t)

\* t.to(device): a tensor method; the tensor is returned unchanged.
To(t) == IF IsTensor(t) THEN t ELSE NotTensor(t)

(***************************************************************************)
(* class CDWS.                                                             *)
(***************************************************************************)
\* The class attributes as the class body sets them (values in hundredths
\* and in tenths, so that they are integers).
ClassFusionWeights == TensorV(<<3>>, <<20, 35, 45>>)
ClassSideAcWeights == TensorV(<<3>>, <<25, 50, 100>>)
ClassFuseAcWeight == PyInt(10)

\* One stage of forward, applied to the feature map that enters it: the side
\* output of the stage and the pooled feature map that leaves it.
Stage1(h0) ==
    LET h == Elementwise(Conv2d(64, 64, 3, 1, Elementwise(Conv2d(3, 64, 3, 1, h0))))
    IN  [side |-> Elementwise(Conv2d(64, 1, 1, 0, h)), h |-> MaxPool2d(2, 2, h)]
Stage2(h1) ==
    LET h == Elementwise(Conv2d(128, 128, 3, 1,
                 Elementwise(Conv2d(64, 128, 3, 1, h1))))
    IN  [side |-> Elementwise(Conv2d(128, 1, 1, 0, h)), h |-> MaxPool2d(2, 2, h)]
Stage3(h2) ==
    LET h == Elementwise(Conv2d(256, 256, 3, 1,
                 Elementwise(Conv2d(256, 256, 3, 1,
                     Elementwise(Conv2d(128, 256, 3, 1, h2))))))
    IN  [side |-> Elementwise(Conv2d(256, 1, 1, 0, h)), h |-> MaxPool2d(2, 2, h)]

\* forward(x): what it returns or raises, and the fields it leaves behind.
\* A statement that raises ends the call; the assignments before it stay.
forward(x, self) ==
    LET s1 == Stage1(x)
        s2 == Stage2(s1.h)
        s3 == Stage3(s2.h)
        h == s3.h
        so == CatChannels(s1.side, s2.side, s3.side)
        fw == View1311(To(self.fusion_weights))
        fo == SumDim1Keep(Binary(so, fw))
    IN  IF ~IsTensor(h) THEN [self EXCEPT !.ret = h]
        ELSE IF ~IsTensor(so) THEN [self EXCEPT !.ret = so]
        ELSE IF ~IsTensor(fw)
             THEN [self EXCEPT !.ret = fw, !.side_outputs = so]
        ELSE IF ~IsTensor(fo)
             THEN [self EXCEPT !.ret = fo, !.side_outputs = so,
                               !.fusion_weights = fw]
        ELSE [self EXCEPT !.ret = h, !.side_outputs = so,
                          !.fusion_weights = fw, !.fused_output = fo]

\* The two assertions that open compute_loss.
ForwardPassDoneUnchecked(self) == TRUE
ForwardPassDone(self) ==
    self.side_outputs.kind # "None" /\ self.fused_output.kind # "None"

\* mil_loss(output), with target_class already unsqueezed (the power 1/gmp
\* is elementwise).
mil_loss(output, target_class) ==
    LET image_pred == Elementwise(MeanHW(output))
    IN  Binary(Binary(target_class, Elementwise(image_pred)),
               Binary(Binary(PyInt(1), target_class),
                      Elementwise(Binary(PyInt(1), image_pred))))

\* ac_loss(output), on shapes.
ac_loss_shape(output, target_class, target_area) ==
    LET area_pred == MeanHW(output)
    IN  Binary(target_class, SumAll(Elementwise(Binary(area_pred, target_area))))

\* compute_loss(target_class, target_area): what it returns or raises, and
\* the fields it leaves behind.
compute_loss(tc, ta, self) ==
    LET target_class == UnsqueezeLast(tc)
        target_area == UnsqueezeLast(ta)
        side_mil_loss == mil_loss(self.side_outputs, target_class)
        side_ac_loss == ac_loss_shape(self.side_outputs, target_class, target_area)
        saw == UnsqueezeFirst(To(self.side_ac_weights))
        side_loss == SumDim1(Binary(side_mil_loss, Binary(saw, side_ac_loss)))
        fuse_mil_loss == mil_loss(self.fused_output, target_class)
        fuse_ac_loss == ac_loss_shape(self.fused_output, target_class, target_area)
        faw == UnsqueezeFirst(To(self.fuse_ac_weight))
        fuse_loss == Squeeze(Binary(fuse_mil_loss, Binary(faw, fuse_ac_loss)))
        loss == Binary(side_loss, fuse_loss)
    IN  IF ~ForwardPassDone(self) THEN [self EXCEPT !.ret = Raise("AssertionError")]
        ELSE IF ~IsTensor(side_mil_loss) THEN [self EXCEPT !.ret = side_mil_loss]
        ELSE IF ~IsTensor(side_ac_loss) THEN [self EXCEPT !.ret = side_ac_loss]
        ELSE IF ~IsTensor(saw) THEN [self EXCEPT !.ret = saw]
        ELSE IF ~IsTensor(side_loss)
             THEN [self EXCEPT !.ret = side_loss, !.side_ac_weights = saw]
        ELSE IF ~IsTensor(fuse_mil_loss)
             THEN [self EXCEPT !.ret = fuse_mil_loss, !.side_ac_weights = saw]
        ELSE IF ~IsTensor(fuse_ac_loss)
             THEN [self EXCEPT !.ret = fuse_ac_loss, !.side_ac_weights = saw]
        ELSE IF ~IsTensor(faw)
             THEN [self EXCEPT !.ret = faw, !.side_ac_weights = saw]
        ELSE IF ~IsTensor(fuse_loss)
             THEN [self EXCEPT !.ret = fuse_loss, !.side_ac_weights = saw,
                               !.fuse_ac_weight = faw]
        ELSE [self EXCEPT !.ret = loss, !.side_ac_weights = saw,
                          !.fuse_ac_weight = faw]

\* The instance as a record, for forward and compute_loss.
Self ==
    [side_outputs |-> side_outputs, fused_output |-> fused_output,
     fusion_weights |-> fusion_weights, side_ac_weights |-> side_ac_weights,
     fuse_ac_weight |-> fuse_ac_weight, ret |-> None]

NoCall == [op |-> "none", x |-> <<>>, tb |-> 0, populated |-> FALSE, ret |-> None]

\* CDWS.__init__ (the copy of the VGG16 weights does not touch the fields
\* modelled here).
InitModel ==
    /\ side_outputs = None
    /\ fused_output = None
    /\ fusion_weights = ClassFusionWeights
    /\ side_ac_weights = ClassSideAcWeights
    /\ fuse_ac_weight = ClassFuseAcWeight
    /\ call = NoCall
    /\ lastForwardX = <<>>

StoreSelf(new) ==
    /\ side_outputs' = new.side_outputs
    /\ fused_output' = new.fused_output
    /\ fusion_weights' = new.fusion_weights
    /\ side_ac_weights' = new.side_ac_weights
    /\ fuse_ac_weight' = new.fuse_ac_weight

\* model(x) for an image batch x of shape (B, 3, H, W).
Forward ==
    \E B \in 1..MaxB, H \in 1..MaxHW, W \in 1..MaxHW :
        LET new == forward(Tensor(<<B, 3, H, W>>), Self)
        IN  /\ StoreSelf(new)
            /\ call' = [op |-> "forward", x |-> <<B, 3, H, W>>, tb |-> 0,
                        populated |-> (side_outputs # None /\ fused_output # None),
                        ret |-> new.ret]
            /\ lastForwardX' = <<B, 3, H, W>>
            /\ UNCHANGED <<acVars, trainVars>>

\* model.compute_loss(target_class, target_area), both of shape (tb,).
ComputeLoss ==
    \E tb \in 1..MaxB :
        LET new == compute_loss(Tensor(<<tb>>), Tensor(<<tb>>), Self)
        IN  /\ StoreSelf(new)
            /\ call' = [op |-> "compute_loss", x |-> <<>>, tb |-> tb,
                        populated |-> (side_outputs # None /\ fused_output # None),
                        ret |-> new.ret]
            /\ UNCHANGED <<lastForwardX, acVars, trainVars>>

(***************************************************************************)
(* ac_loss on numbers.  area_pred[b][c], target_area[b] are integers (the  *)
(* fractions in units of 1/MaxVal), target_class[b] is 0 or 1.             *)
(***************************************************************************)
MaxVal == 1      \* area values 0..MaxVal

Channels == {1, 3}   \* fused_output has 1 channel, side_outputs has 3

RECURSIVE SumSeq(_)
SumSeq(q) == IF q = <<>> THEN 0 ELSE Head(q) + SumSeq(Tail(q))

\* (area_pred - target_area) ** 2: target_area of shape (B, 1) is broadcast
\* along the channels.
SquaredDiff(area_pred, target_area) ==
    [b \in DOMAIN area_pred |->
        [c \in DOMAIN area_pred[b] |->
            (area_pred[b][c] - target_area[b]) * (area_pred[b][c] - target_area[b])]]

\* torch.sum(t) of a (B, C) tensor: the sum of all its elements.
TorchSum(t) == SumSeq([b \in DOMAIN t |-> SumSeq(t[b])])

\* ac_loss(output): a (B, 1) tensor, target_class of shape (B, 1) times a
\* 0-dimensional tensor.
ac_loss(area_pred, target_class, target_area) ==
    [b \in DOMAIN target_class |->
        <<target_class[b] * TorchSum(SquaredDiff(area_pred, target_area))>>]

\* The element [b, c] of the product weights * ac_loss(output), weights of
\* shape (1, C): the (B, 1) tensor is broadcast along the channels.
AcTerm(out, b, c) == out[b][1]

AcInputs ==
    UNION {[B : {B}, C : {C},
            area_pred : [1..B -> [1..C -> 0..MaxVal]],
            target_area : [1..B -> 0..MaxVal],
            target_class : [1..B -> {0, 1}]] : B \in 1..MaxB, C \in Channels}

InitAcIdle == acIn = <<>> /\ acOut = <<>>
InitAcInputs == acIn \in AcInputs /\ acOut = <<>>

ApplyAcLoss ==
    /\ acOut = <<>>
    /\ acOut' = ac_loss(acIn.area_pred, acIn.target_class, acIn.target_area)
    /\ UNCHANGED <<acIn, modelVars, trainVars>>

(***************************************************************************)
(* train.py.                                                               *)
(***************************************************************************)
MaxRuns == 2         \* runs of the program in a chain
MaxEpochs == 2       \* args.epochs is 0..MaxEpochs
TrainBatches == 2    \* batches of dataloaders['train']
ValBatches == 1      \* batches of dataloaders['val']

NoException == [exc |-> "none", from |-> "none"]

\* 'ckpt.{:04d}.pth'.format(epoch): the digits of the name.
RECURSIVE Digits(_)
Digits(n) == IF n < 10 THEN <<n>> ELSE Digits(n \div 10) \o <<n % 10>>
RECURSIVE ZeroPad(_, _)
ZeroPad(d, width) == IF Len(d) >= width THEN d ELSE ZeroPad(<<0>> \o d, width)
CkptName(n) == ZeroPad(Digits(n), 4)

\* A checkpoint file: its name and the epoch recorded in it.
CkptFile(n) == [name |-> CkptName(n), epoch |-> n]

\* args.resume_ckpt and checkpoint when they are None.
NoCheckpoint == [name |-> <<>>, epoch |-> 0]

\* fit, line 146.
InitialEpochFromZero(checkpoint) ==
    IF checkpoint # NoCheckpoint THEN checkpoint.epoch ELSE 1
InitialEpoch(checkpoint) ==
    IF checkpoint # NoCheckpoint THEN checkpoint.epoch + 1 ELSE 1

\* fit, line 147.
TotalEpochs(n, first) == n + first - 1

\* train_one_epoch, line 90.
Phases(no_val) == IF no_val THEN <<"train">> ELSE <<"train", "val">>
Phase == Phases(~args.hasVal)[phaseIdx]
NumBatches(phase) == IF phase = "train" THEN TrainBatches ELSE ValBatches

\* train_one_iteration, line 74: the phase in which the loss is computed and
\* the model updated.
UpdatesModelAlways(phase) == TRUE
UpdatesModel(phase) == phase = "train"

\* train_one_iteration: the calls it makes, in the order of the code.
IterationOps(phase) ==
    <<"preprocess", "zero_grad", "forward">>
        \o (IF UpdatesModel(phase) THEN <<"compute_loss", "backward", "step">>
            ELSE <<>>)
        \o <<"evaluate">>

\* train_one_epoch, lines 103-106: what the handler does with an exception
\* raised by train_one_iteration.
OnIterationExceptionReraise(exc) == "propagate"
OnIterationException(exc) == IF exc = "RuntimeError" THEN "continue" ELSE "propagate"

\* fit, lines 171-172: the files left once the previous checkpoints are removed.
KeepPreviousCheckpoints(files) == files
RemovePreviousCheckpoints(files) == files \ {f \in files : TRUE}

NoAttempts == [ph \in {"train", "val"} |-> [b \in 1..NumBatches(ph) |-> 0]]

NoArgs ==
    [epochs |-> 0, smoke |-> FALSE, resume_ckpt |-> NoCheckpoint, hasVal |-> FALSE]

InitTrain ==
    /\ dirExists = FALSE
    /\ ckpts = {}
    /\ saved = <<>>
    /\ runNo = 0
    /\ pc = "idle"
    /\ args = NoArgs
    /\ initial_epoch = 0
    /\ total_epochs = 0
    /\ epoch = 0
    /\ epochsRun = <<>>
    /\ phaseIdx = 0
    /\ batch = 0
    /\ iterLog = <<>>
    /\ attempts = NoAttempts
    /\ caught = 0
    /\ pending = NoException

ResetRun ==
    /\ initial_epoch' = 0
    /\ total_epochs' = 0
    /\ epoch' = 0
    /\ epochsRun' = <<>>
    /\ phaseIdx' = 0
    /\ batch' = 0
    /\ iterLog' = <<>>
    /\ attempts' = NoAttempts
    /\ caught' = 0
    /\ pending' = NoException

\* __main__, lines 184-187: the program is started; a checkpoint to resume
\* from is one of the files of the record directory.
ParseArgs ==
    /\ pc \in {"idle", "exited"}
    /\ runNo < MaxRuns
    /\ \E n \in 0..MaxEpochs, sm \in BOOLEAN, hv \in BOOLEAN,
          r \in {NoCheckpoint} \cup (IF dirExists THEN ckpts ELSE {}) :
            args' = [epochs |-> n, smoke |-> sm, resume_ckpt |-> r, hasVal |-> hv]
    /\ runNo' = runNo + 1
    /\ pc' = "record_dir"
    /\ ResetRun
    /\ UNCHANGED <<dirVars, modelVars, acVars>>

\* __main__, lines 189-192: record_dir is the directory of the checkpoint, or
\* a new directory made by record.prepare_record_dir().
SetRecordDir ==
    /\ pc = "record_dir"
    /\ IF args.resume_ckpt # NoCheckpoint
       THEN /\ pc' = "tracker"
            /\ UNCHANGED dirVars
       ELSE /\ dirExists' = TRUE
            /\ ckpts' = {}
            /\ saved' = <<>>
            /\ pc' = "copy_source"
    /\ UNCHANGED <<runNo, args, fitVars, epochVars, pending, modelVars, acVars>>

\* __main__, line 193, outside the try statement: the program ends when it
\* raises.
CopySourceFiles ==
    /\ pc = "copy_source"
    /\ \E ok \in BOOLEAN :
        IF ok THEN pc' = "tracker" /\ pending' = pending
        ELSE pc' = "exited" /\ pending' = [exc |-> "Exception", from |-> "main"]
    /\ UNCHANGED <<dirVars, runNo, args, fitVars, epochVars, modelVars, acVars>>

\* __main__, lines 195-198, outside the try statement: the program ends when
\* one of them raises.
SetUpTrackerAndLogger ==
    /\ pc = "tracker"
    /\ \E ok \in BOOLEAN :
        IF ok THEN pc' = "fit" /\ pending' = pending
        ELSE pc' = "exited" /\ pending' = [exc |-> "Exception", from |-> "main"]
    /\ UNCHANGED <<dirVars, runNo, args, fitVars, epochVars, modelVars, acVars>>

\* fit, lines 114-147: checkpoint, model, data loaders, optimizer and the
\* range of epochs.
FitSetUp ==
    /\ pc = "fit"
    /\ \E ok \in BOOLEAN :
        IF ok
        THEN /\ initial_epoch' = InitialEpoch(args.resume_ckpt)
             /\ total_epochs' = TotalEpochs(args.epochs, InitialEpoch(args.resume_ckpt))
             /\ epoch' = InitialEpoch(args.resume_ckpt)
             /\ pc' = "loop"
             /\ pending' = pending
        ELSE /\ pc' = "finally"
             /\ pending' = [exc |-> "Exception", from |-> "fit"]
             /\ UNCHANGED <<initial_epoch, total_epochs, epoch>>
    /\ UNCHANGED <<dirVars, runNo, args, epochsRun, epochVars, modelVars, acVars>>

\* fit, lines 149-152 and train_one_epoch, line 90: an epoch starts.
EpochStart ==
    /\ pc = "loop"
    /\ epoch <= total_epochs
    /\ epochsRun' = Append(epochsRun, epoch)
    /\ phaseIdx' = 1
    /\ batch' = 0
    /\ iterLog' = <<>>
    /\ attempts' = NoAttempts
    /\ caught' = 0
    /\ pc' = "phase"
    /\ UNCHANGED <<dirVars, runNo, args, initial_epoch, total_epochs, epoch,
                   pending, modelVars, acVars>>

\* train_one_epoch, lines 91-101: a phase starts.
PhaseStart ==
    /\ pc = "phase"
    /\ phaseIdx <= Len(Phases(~args.hasVal))
    /\ batch' = 1
    /\ pc' = "batch"
    /\ UNCHANGED <<dirVars, runNo, args, fitVars, phaseIdx, iterLog, attempts,
                   caught, pending, modelVars, acVars>>

\* train_one_epoch, lines 102-104: the next batch is handed to
\* train_one_iteration.
IterationStart ==
    /\ pc = "batch"
    /\ batch <= NumBatches(Phase)
    /\ attempts' = [attempts EXCEPT ![Phase][batch] = @ + 1]
    /\ iterLog' = <<>>
    /\ pc' = "iteration"
    /\ UNCHANGED <<dirVars, runNo, args, fitVars, phaseIdx, batch, caught,
                   pending, modelVars, acVars>>

\* train_one_iteration, lines 67-86, one call at a time, and the handler of
\* train_one_epoch, lines 105-106, when the call raises.
IterationStep ==
    /\ pc = "iteration"
    /\ Len(iterLog) < Len(IterationOps(Phase))
    /\ \E outcome \in {"ok", "RuntimeError", "Exception"} :
        LET op == IterationOps(Phase)[Len(iterLog) + 1]
            done == Len(iterLog) + 1 = Len(IterationOps(Phase))
        IN  /\ iterLog' = Append(iterLog, [op |-> op, phase |-> Phase])
            /\ IF outcome = "ok"
               THEN /\ pc' = IF done THEN "batch" ELSE "iteration"
                    /\ batch' = IF done THEN batch + 1 ELSE batch
                    /\ UNCHANGED <<caught, pending>>
               ELSE IF OnIterationException(outcome) = "continue"
               THEN /\ pc' = "batch"
                    /\ batch' = batch + 1
                    /\ caught' = caught + 1
                    /\ UNCHANGED pending
               ELSE /\ pc' = "finally"
                    /\ pending' = [exc |-> outcome, from |-> "iteration"]
                    /\ UNCHANGED <<batch, caught>>
    /\ UNCHANGED <<dirVars, runNo, args, fitVars, phaseIdx, attempts,
                   modelVars, acVars>>

\* train_one_epoch, lines 108-109: the phase ends; the next one follows, or
\* train_one_epoch returns.
PhaseEnd ==
    /\ pc = "batch"
    /\ batch > NumBatches(Phase)
    /\ IF phaseIdx < Len(Phases(~args.hasVal))
       THEN phaseIdx' = phaseIdx + 1 /\ pc' = "phase"
       ELSE phaseIdx' = phaseIdx /\ pc' = "epoch_end"
    /\ UNCHANGED <<dirVars, runNo, args, fitVars, batch, iterLog, attempts,
                   caught, pending, modelVars, acVars>>

\* fit, lines 155-168: scheduler step, metrics and learning curves.
EpochBookkeeping ==
    /\ pc = "epoch_end"
    /\ \E ok \in BOOLEAN :
        IF ok THEN pc' = "remove" /\ pending' = pending
        ELSE pc' = "finally" /\ pending' = [exc |-> "Exception", from |-> "fit"]
    /\ UNCHANGED <<dirVars, runNo, args, fitVars, epochVars, modelVars, acVars>>

\* fit, lines 170-172.
RemoveCheckpoints ==
    /\ pc = "remove"
    /\ ckpts' = RemovePreviousCheckpoints(ckpts)
    /\ pc' = "save"
    /\ UNCHANGED <<dirExists, saved, runNo, args, fitVars, epochVars, pending,
                   modelVars, acVars>>

\* fit, lines 174-178, and the step of the loop to the next epoch.
SaveCheckpoint ==
    /\ pc = "save"
    /\ \E ok \in BOOLEAN :
        IF ok
        THEN /\ ckpts' = ckpts \cup {CkptFile(epoch)}
             /\ saved' = Append(saved, epoch)
             /\ epoch' = epoch + 1
             /\ pc' = "loop"
             /\ pending' = pending
        ELSE /\ pc' = "finally"
             /\ pending' = [exc |-> "Exception", from |-> "fit"]
             /\ UNCHANGED <<ckpts, saved, epoch>>
    /\ UNCHANGED <<dirExists, runNo, args, initial_epoch, total_epochs,
                   epochsRun, epochVars, modelVars, acVars>>

\* fit, line 180: the loop is over, fit returns.
FitReport ==
    /\ pc = "loop"
    /\ epoch > total_epochs
    /\ pc' = "finally"
    /\ UNCHANGED <<dirVars, runNo, args, fitVars, epochVars, pending,
                   modelVars, acVars>>

\* __main__, lines 202-204: the finally clause, then the program ends.
Finally ==
    /\ pc = "finally"
    /\ IF args.smoke
       THEN dirExists' = FALSE /\ ckpts' = {}
       ELSE UNCHANGED <<dirExists, ckpts>>
    /\ pc' = "exited"
    /\ UNCHANGED <<saved, runNo, args, fitVars, epochVars, pending,
                   modelVars, acVars>>

vars == <<modelVars, acVars, trainVars>>

InitM == InitModel /\ InitAcIdle /\ InitTrain
NextModel == Forward \/ ComputeLoss
SpecModel == InitM /\ [][NextModel]_vars

InitA == InitModel /\ InitAcInputs /\ InitTrain
NextAC == ApplyAcLoss
SpecAC == InitA /\ [][NextAC]_vars

InitT == InitModel /\ InitAcIdle /\ InitTrain
NextTrain ==
    \/ ParseArgs
    \/ SetRecordDir
    \/ CopySourceFiles
    \/ SetUpTrackerAndLogger
    \/ FitSetUp
    \/ EpochStart
    \/ PhaseStart
    \/ IterationStart
    \/ IterationStep
    \/ PhaseEnd
    \/ EpochBookkeeping
    \/ RemoveCheckpoints
    \/ SaveCheckpoint
    \/ FitReport
    \/ Finally
SpecTrain == InitT /\ [][NextTrain]_vars

(***************************************************************************)
(* Claims about CDWS.                                                      *)
(***************************************************************************)
DivisibleBy8(x) == x[3] % 8 = 0 /\ x[4] % 8 = 0

\* C1: a compute_loss call on an instance whose side_outputs and
\* fused_output are both still None (fresh, or every forward call so far
\* raised) raises AssertionError and returns no loss.
C1_LossBeforeForwardAsserts ==
    (call.op = "compute_loss" /\ ~call.populated)
        => call.ret = Raise("AssertionError")

\* C1 witness: compute_loss was called on an instance whose forward calls
\* all raised, and it raised the assertion error.
C1_Witness ==
    /\ call.op = "compute_loss"
    /\ ~call.populated
    /\ lastForwardX # <<>>
    /\ call.ret.kind = "AssertionError"

\* C2: a forward call on a (B,3,H,W) batch with H and W divisible by 8
\* returns a (B,256,H/8,W/8) feature map and leaves side_outputs of shape
\* (B,3,H,W) and fused_output of shape (B,1,H,W).
C2_ForwardShapes ==
    (call.op = "forward" /\ DivisibleBy8(call.x))
        => /\ call.ret = Tensor(<<call.x[1], 256, call.x[3] \div 8, call.x[4] \div 8>>)
           /\ side_outputs = Tensor(<<call.x[1], 3, call.x[3], call.x[4]>>)
           /\ fused_output = Tensor(<<call.x[1], 1, call.x[3], call.x[4]>>)

BatchSumForChannel(in, c) ==
    SumSeq([b \in 1..in.B |->
        (in.area_pred[b][c] - in.target_area[b])
            * (in.area_pred[b][c] - in.target_area[b])])

\* C9: the area-consistency term of sample b and channel c is
\* target_class[b] times the sum over the batch of the squared differences
\* of channel c alone.
C9_AcTermPerChannel ==
    acOut # <<>> =>
        \A b \in 1..acIn.B, c \in 1..acIn.C :
            AcTerm(acOut, b, c) = acIn.target_class[b] * BatchSumForChannel(acIn, c)

(***************************************************************************)
(* Claims about train.py.                                                  *)
(***************************************************************************)
Last(q) == q[Len(q)]
RunPhases == Phases(~args.hasVal)
AllAttemptedOnce(ph) == \A b \in 1..NumBatches(ph) : attempts[ph][b] = 1
IsUpdateOp(op) == op \in {"compute_loss", "backward", "step"}

\* C4: the checkpoints directory never holds more than one .pth file; it is
\* empty when the new checkpoint is about to be written, and right after the
\* save of epoch E it holds ckpt.E and nothing else.
C4_OnlyLatestCheckpoint ==
    /\ Cardinality(ckpts) <= 1
    /\ pc = "save" => ckpts = {}
    /\ (pc = "loop" /\ epochsRun # <<>>) => ckpts = {CkptFile(Last(epochsRun))}

\* C4 witness: a resumed run has saved a checkpoint of its own, and the
\* checkpoint it resumed from is gone.
C4_Witness ==
    /\ pc = "loop"
    /\ epochsRun # <<>>
    /\ args.resume_ckpt # NoCheckpoint
    /\ args.resume_ckpt \notin ckpts
    /\ ckpts = {CkptFile(Last(epochsRun))}

\* C5: a run resumed from a checkpoint of epoch E (E = 0 without checkpoint)
\* numbers its epochs E+1, E+2, ...; it runs no more than args.epochs of
\* them and, when fit returns, exactly args.epochs; every checkpoint is saved
\* under the number of its epoch, and the checkpoints saved in a record
\* directory over a chain of runs are numbered 1, 2, 3, ... without gap or
\* repetition.
C5_EpochNumbering ==
    /\ \A i \in 1..Len(epochsRun) : epochsRun[i] = args.resume_ckpt.epoch + i
    /\ Len(epochsRun) <= args.epochs
    /\ (pc = "exited" /\ pending = NoException) => Len(epochsRun) = args.epochs
    /\ (pc = "loop" /\ epochsRun # <<>>) =>
            /\ Last(saved) = Last(epochsRun)
            /\ \E f \in ckpts : f.epoch = Last(epochsRun)
                                    /\ f.name = CkptName(Last(epochsRun))
    /\ \A i \in 1..Len(saved) : saved[i] = i

\* C5 witness: a run resumed from a checkpoint has run all its epochs, at
\* least two, and fit has returned.
C5_Witness ==
    /\ pc = "exited"
    /\ pending = NoException
    /\ args.resume_ckpt # NoCheckpoint
    /\ args.epochs >= 2
    /\ Len(epochsRun) = args.epochs

\* C6: a RuntimeError raised by train_one_iteration never leaves
\* train_one_epoch; no batch is attempted twice, and when train_one_epoch
\* returns every batch of every phase has been attempted exactly once.
C6_RuntimeErrorSkipsBatch ==
    /\ pending.exc # "RuntimeError"
    /\ \A ph \in {"train", "val"} : \A b \in 1..NumBatches(ph) : attempts[ph][b] <= 1
    /\ pc \in {"epoch_end", "remove", "save"} =>
            \A k \in 1..Len(RunPhases) : AllAttemptedOnce(RunPhases[k])

\* C6 witness: train_one_epoch has returned although every batch of both
\* phases raised a RuntimeError.
C6_Witness ==
    /\ pc = "epoch_end"
    /\ args.hasVal
    /\ caught = TrainBatches + ValBatches
    /\ AllAttemptedOnce("train")
    /\ AllAttemptedOnce("val")

\* C7: in smoke-test mode the record directory does not exist once the
\* program has ended, on whatever path it ended.
C7_SmokeRemovesRecordDir ==
    (pc = "exited" /\ args.smoke) => ~dirExists

\* C8: the val phase starts only when every training batch has been
\* processed; compute_loss, backward and step are called in train-phase
\* iterations only, after zero_grad and forward for the same batch and in the
\* order forward, compute_loss, backward, step.
C8_UpdatesOnlyInTrainPhase ==
    /\ (pc \in {"phase", "batch", "iteration"} /\ Phase = "val")
            => AllAttemptedOnce("train")
    /\ \A i \in 1..Len(iterLog) :
        /\ IsUpdateOp(iterLog[i].op) => iterLog[i].phase = "train"
        /\ iterLog[i].op = "compute_loss" =>
                /\ i >= 3
                /\ iterLog[i - 1].op = "forward"
                /\ iterLog[i - 2].op = "zero_grad"
        /\ iterLog[i].op = "backward" => (i >= 2 /\ iterLog[i - 1].op = "compute_loss")
        /\ iterLog[i].op = "step" => (i >= 2 /\ iterLog[i - 1].op = "backward")

\* C8 witness: a val-phase iteration has run to its end after a train-phase
\* iteration of the same epoch made an optimizer step.
C8_Witness ==
    /\ pc = "batch"
    /\ Phase = "val"
    /\ attempts["val"][1] = 1
    /\ caught = 0
    /\ iterLog # <<>>
    /\ Last(iterLog) = [op |-> "evaluate", phase |-> "val"]

====
